---------------------------- MODULE Spec2Model ----------------------------
(***************************************************************************)
(* apollo-puller (src/src/main.rs): a daemon that subscribes to an Apollo  *)
(* configuration service for a list of applications and writes every       *)
(* received namespace snapshot to <dir>/<app_id>/<filename>.               *)
(*                                                                         *)
(* The model has one step per await point of run and run_app.  Strings     *)
(* whose suffix the code inspects (namespace names) are sequences of       *)
(* segments, the last one being the extension; file contents are           *)
(* sequences of units (one unit per token of a blob, one unit per          *)
(* key=value line of an INI document).                                     *)
(***************************************************************************)
EXTENDS Naturals, Sequences, FiniteSets, TLC

VARIABLES
    config,     \* the parsed Config handed to run (main.rs:37-56)
    runPc,      \* position of run (main.rs:114-139)
    ip_value,   \* Option<IpValue> resolved at main.rs:124
    baseDir,    \* TRUE once config.dir exists (main.rs:115)
    dirs,       \* application sub-directories that exist under config.dir
    fs,         \* fs[p]: content of the file at path p, or Absent
    pc,         \* pc[i]: position of the i-th run_app future
    sub,        \* sub[i]: the WatchRequest of loop i, or NoRequest
    taken,      \* taken[i]: items loop i has taken from its stream
    batch,      \* batch[i]: entries of the current batch not yet handled
    cur,        \* cur[i]: path and content of the entry being written
    pend,       \* pend[i]: background write of tokio's File, and its fate
    err,        \* err[i]: the error f.await returned (main.rs:182)
    logged,     \* logged[i]: number of log::error! lines of loop i
    peak,       \* peak[p]: the largest length the file at p has had (history)
    torn,       \* the paths at which write_all has reported an error (history)
    mat         \* Materializer harness: inputs and the two outputs

vars == <<config, runPc, ip_value, baseDir, dirs, fs, pc, sub, taken,
          batch, cur, pend, err, logged, peak, torn, mat>>

-----------------------------------------------------------------------------
(* Bounds *)

\* Items (batches or batch-level errors) the subscription streams of the
\* process yield at most, all together, before they end.
MaxItems == 3

-----------------------------------------------------------------------------
(* Strings and maps *)

EndsWith(s, suffix) == Len(s) > 0 /\ s[Len(s)] = suffix

\* apollo_client::utils::canonicalize_namespace: a name that carries a
\* recognised extension is kept, any other gets ".properties" appended.
KnownExtensions == {".properties", ".xml", ".json", ".yml", ".yaml", ".txt"}

canonicalize_namespace(namespace) ==
    IF \E e \in KnownExtensions : EndsWith(namespace, e)
    THEN namespace
    ELSE Append(namespace, ".properties")

RECURSIVE Sum(_)
Sum(f) == IF f = <<>> THEN 0 ELSE Head(f) + Sum(Tail(f))

\* All orders in which a HashMap with key set K may be iterated.
Orders(K) ==
    {o \in [1..Cardinality(K) -> K] : \A k \in K : \E n \in DOMAIN o : o[n] = k}


-----------------------------------------------------------------------------
(* Namespace materialisation, main.rs:162-174 *)

\* A configuration value is a sequence of characters; Join is the string.
RECURSIVE Join(_)
Join(s) == IF s = <<>> THEN "" ELSE Head(s) \o Join(Tail(s))

\* Ini::with_section(None).set(key, value): replaces the property of that
\* key when the general section has one, appends it otherwise.
IniSet(conf, key, value) ==
    IF \E n \in DOMAIN conf : conf[n].key = key
    THEN [n \in DOMAIN conf |->
            IF conf[n].key = key THEN [key |-> key, value |-> value] ELSE conf[n]]
    ELSE Append(conf, [key |-> key, value |-> value])

\* Mutant of IniFill: the key "content" is taken for the blob payload and
\* left out of the document.
RECURSIVE IniFillSkipContent(_, _, _)
IniFillSkipContent(conf, configurations, order) ==
    IF order = <<>> THEN conf
    ELSE IF Head(order) = "content"
         THEN IniFillSkipContent(conf, configurations, Tail(order))
         ELSE IniFillSkipContent(IniSet(conf, Head(order), configurations[Head(order)]),
                                 configurations, Tail(order))

\* The loop of main.rs:166-168 over response.configurations, a HashMap
\* iterated in the order `order`.
RECURSIVE IniFill(_, _, _)
IniFill(conf, configurations, order) ==
    IF order = <<>> THEN conf
    ELSE IniFill(IniSet(conf, Head(order), configurations[Head(order)]),
                 configurations, Tail(order))

\* Ini::write_to: one "key=value" line per property of the general section.
IniWriteTo(conf) ==
    [n \in DOMAIN conf |-> conf[n].key \o "=" \o Join(conf[n].value) \o "\n"]

\* Mutant of BlobContent: without a "content" key, the value of some other
\* key is written.
BlobContentOrAny(configurations) ==
    IF "content" \in DOMAIN configurations THEN configurations["content"]
    ELSE IF DOMAIN configurations = {} THEN <<>>
    ELSE configurations[CHOOSE k \in DOMAIN configurations : TRUE]

\* main.rs:172-173: the value of the key "content", or the empty string.
BlobContent(configurations) ==
    IF "content" \in DOMAIN configurations THEN configurations["content"] ELSE <<>>

\* main.rs:163: the format is chosen by the suffix of the filename.
IsProperties(filename) == EndsWith(filename, ".properties")

\* main.rs:162-174: the bytes written for a response.
Content(namespace_name, configurations, order) ==
    IF IsProperties(canonicalize_namespace(namespace_name))
    THEN IniWriteTo(IniFill(<<>>, configurations, order))
    ELSE BlobContent(configurations)

\* Every content the code may produce for (namespace_name, configurations).
Contents(namespace_name, configurations) ==
    {Content(namespace_name, configurations, o) : o \in Orders(DOMAIN configurations)}

-----------------------------------------------------------------------------
(* Host identity, main.rs:74-78 and 189-195 *)

NoHost == [type |-> "None", arg |-> ""]
Hosts ==
    { NoHost,
      [type |-> "HostName", arg |-> ""],
      [type |-> "HostCidr", arg |-> "10.0.0.0/8"],
      [type |-> "HostCidr", arg |-> "10.0.0.0/33"],
      [type |-> "Custom", arg |-> "gray"] }

\* IpCidr::from_str on the strings of the model.
CidrParses(cidr) == cidr \in {"10.0.0.0/8"}

\* Url::parse on the strings of the model.
Urls == {"http://apollo:8080", "apollo/8080"}
UrlParses(url) == url \in {"http://apollo:8080"}

host_to_ip_value(host) ==
    CASE host.type = "HostName" -> [ok |-> TRUE, value |-> [kind |-> "HostName", arg |-> ""]]
      [] host.type = "HostCidr" ->
            IF CidrParses(host.arg)
            THEN [ok |-> TRUE, value |-> [kind |-> "HostCidr", arg |-> host.arg]]
            ELSE [ok |-> FALSE, value |-> [kind |-> "Err", arg |-> host.arg]]
      [] host.type = "Custom" -> [ok |-> TRUE, value |-> [kind |-> "Custom", arg |-> host.arg]]

NoIp == [kind |-> "None", arg |-> ""]

\* Mutant of ResolveHost: a host that does not resolve is treated as absent.
ResolveHostOrNone(host) ==
    IF host = NoHost \/ ~host_to_ip_value(host).ok
    THEN [ok |-> TRUE, value |-> NoIp]
    ELSE host_to_ip_value(host)

\* main.rs:124: config.host.as_ref().map(host_to_ip_value).transpose()
ResolveHost(host) ==
    IF host = NoHost THEN [ok |-> TRUE, value |-> NoIp] ELSE host_to_ip_value(host)

-----------------------------------------------------------------------------
(* The configurations and the snapshots of the model *)

NsBare == <<"application">>
NsProps == <<"application", ".properties">>
NsJson == <<"feature", ".json">>

AppOrder == [app_id |-> "order", namespaces |-> <<NsBare, NsJson>>]
AppStock == [app_id |-> "stock", namespaces |-> <<NsProps>>]
AppMail == [app_id |-> "mail", namespaces |-> <<NsJson>>]

MkConfig(url, host, apps) ==
    [dir |-> "out", config_service_url |-> url, host |-> host, apps |-> apps]

Configs ==
    {MkConfig(u, h, <<>>) : u \in Urls, h \in Hosts}
      \cup {MkConfig("http://apollo:8080", h, <<AppMail>>) : h \in Hosts}
      \cup {MkConfig("http://apollo:8080", [type |-> "Custom", arg |-> "gray"], <<AppOrder>>),
            MkConfig("http://apollo:8080", [type |-> "HostName", arg |-> ""], <<AppStock, AppMail>>)}

MapEmpty == [k \in {} |-> <<>>]
MapK == ("k" :> <<"v">>)
MapC == ("content" :> <<"x">>)
MapCK == ("content" :> <<"x", "y">>) @@ ("k" :> <<"v">>)

\* The configuration maps the streams of the model deliver, per application.
SnapMaps == {MapK, MapC, MapCK}
Delivered(app_id) ==
    CASE app_id = "stock" -> {MapK, MapCK}
      [] app_id = "mail" -> {MapC, MapCK}
      [] OTHER -> SnapMaps

Loops == 1..Len(config.apps)

AppIds == {"order", "stock", "mail"}
Filenames == {canonicalize_namespace(n) : n \in {NsBare, NsProps, NsJson}}
Paths == [dir : AppIds, file : Filenames]

Absent == [exists |-> FALSE, data |-> <<>>]
FileOf(data) == [exists |-> TRUE, data |-> data]

NoPath == [dir |-> "", file |-> <<>>]
NoCur == [path |-> NoPath, content |-> <<>>]
NoWrite == [st |-> "none", fate |-> "", path |-> NoPath, content |-> <<>>]
NoErr == [kind |-> "", skipped |-> 0]
NoRequest == [app_id |-> "", namespace_names |-> <<>>, ip |-> NoIp]
NoResponse == [app_id |-> "", namespace_name |-> <<>>, configurations |-> MapEmpty]

\* One entry of a batch: the requested namespace and its Result.
OkEntry(app, ns, m) ==
    [key |-> ns, ok |-> TRUE,
     response |-> [app_id |-> app.app_id, namespace_name |-> ns, configurations |-> m]]
ErrEntry(ns) == [key |-> ns, ok |-> FALSE, response |-> NoResponse]

EntriesOf(app, ns) ==
    {ErrEntry(ns)} \cup {OkEntry(app, ns, m) : m \in Delivered(app.app_id)}

\* The batches the stream of `app` may yield: a HashMap from some of the
\* requested namespaces to their results, in the order its iteration
\* (main.rs:155) visits them.
Batches(app) ==
    UNION { UNION { {b \in [1..Cardinality(S) -> UNION {EntriesOf(app, app.namespaces[n]) : n \in S}] :
                        \A j \in DOMAIN b : b[j] \in EntriesOf(app, app.namespaces[o[j]])}
                    : o \in Orders(S) }
            : S \in (SUBSET (DOMAIN app.namespaces)) \ {{}} }

-----------------------------------------------------------------------------
(* Initial state: run is about to be called with a parsed Config *)

MatIdle == [st |-> "off", namespace_name |-> <<>>, configurations |-> MapEmpty,
            first |-> <<>>, second |-> <<>>]

Init ==
    /\ config \in Configs
    /\ runPc = "mkdir"
    /\ ip_value = NoIp
    /\ baseDir = FALSE
    /\ dirs = {}
    /\ fs = [p \in Paths |-> Absent]
    /\ pc = <<>>
    /\ sub = [i \in Loops |-> NoRequest]
    /\ taken = [i \in Loops |-> 0]
    /\ batch = [i \in Loops |-> <<>>]
    /\ cur = [i \in Loops |-> NoCur]
    /\ pend = [i \in Loops |-> NoWrite]
    /\ err = [i \in Loops |-> NoErr]
    /\ logged = [i \in Loops |-> 0]
    /\ peak = [p \in Paths |-> 0]
    /\ torn = {}
    /\ mat = MatIdle

loopVars == <<pc, sub, taken, batch, cur, pend, err, logged>>

-----------------------------------------------------------------------------
(* run, main.rs:114-139 *)

\* main.rs:115: fs::create_dir_all(&config.dir).await?
CreateBaseDir ==
    /\ runPc = "mkdir"
    /\ \E ok \in BOOLEAN :
         IF ok THEN baseDir' = TRUE /\ runPc' = "client"
               ELSE baseDir' = baseDir /\ runPc' = "err"
    /\ UNCHANGED <<config, ip_value, dirs, fs, peak, torn, mat>>
    /\ UNCHANGED loopVars

\* main.rs:118-120: Url::parse(..)?, new_via_config_service(..)?.build()?
BuildClient ==
    /\ runPc = "client"
    /\ \E built \in BOOLEAN :
         runPc' = IF UrlParses(config.config_service_url) /\ built THEN "host" ELSE "err"
    /\ UNCHANGED <<config, ip_value, baseDir, dirs, fs, peak, torn, mat>>
    /\ UNCHANGED loopVars

\* main.rs:126-134: one future per element of config.apps.
Futures(apps) == [i \in 1..Len(apps) |-> "start"]

\* main.rs:124-136: resolve the host, build the futures, enter join_all.
StartLoops ==
    /\ runPc = "host"
    /\ LET r == ResolveHost(config.host) IN
         IF r.ok
         THEN /\ ip_value' = r.value
              /\ pc' = Futures(config.apps)
              /\ runPc' = "join"
         ELSE /\ runPc' = "err"
              /\ UNCHANGED <<ip_value, pc>>
    /\ UNCHANGED <<config, baseDir, dirs, fs, peak, torn, mat>>
    /\ UNCHANGED <<sub, taken, batch, cur, pend, err, logged>>

\* Mutant of JoinReady: ready as soon as one future has completed.
AnyReady(p) == \E i \in DOMAIN p : p[i] = "done"

\* join_all (main.rs:136) is ready when every future has completed.
JoinReady(p) == \A i \in DOMAIN p : p[i] = "done"

\* main.rs:136-138: join_all(futs).await; Ok(())
Return ==
    /\ runPc = "join"
    /\ JoinReady(pc)
    /\ runPc' = "ok"
    /\ UNCHANGED <<config, ip_value, baseDir, dirs, fs, peak, torn, mat>>
    /\ UNCHANGED loopVars

-----------------------------------------------------------------------------
(* The file system as tokio::fs shows it *)

\* Mutant of Truncate: the file is opened for writing without truncation.
OpenWithoutTruncate(file) == FileOf(file.data)

\* File::create on an existing or missing file: it exists and is empty.
Truncate(file) == FileOf(<<>>)

\* A write of `bytes` at offset 0 of a file just opened.
WriteAt(file, bytes) ==
    FileOf(bytes \o SubSeq(file.data, Len(bytes) + 1, Len(file.data)))

\* History: the largest length each file has had.
Peak(old, files) ==
    [p \in Paths |-> IF Len(files[p].data) > old[p] THEN Len(files[p].data) ELSE old[p]]

\* The part of `bytes` a failed write may have written.
Prefixes(bytes) == {SubSeq(bytes, 1, k) : k \in 0..(Len(bytes) - 1)}

-----------------------------------------------------------------------------
(* run_app, main.rs:141-187 *)

\* Mutant of WatchRequestOf: the ip field is left to ..Default::default().
WatchRequestDefaultIp(app, ip) ==
    [app_id |-> app.app_id, namespace_names |-> app.namespaces, ip |-> NoIp]

\* main.rs:142-147: the WatchRequest of one application.
WatchRequestOf(app, ip) ==
    [app_id |-> app.app_id, namespace_names |-> app.namespaces, ip |-> ip]

\* main.rs:142-149: client.watch(..), pin_mut!(stream)
Subscribe(i) ==
    /\ pc[i] = "start"
    /\ sub' = [sub EXCEPT ![i] = WatchRequestOf(config.apps[i], ip_value)]
    /\ pc' = [pc EXCEPT ![i] = "await"]
    /\ UNCHANGED <<config, runPc, ip_value, baseDir, dirs, fs, peak, torn, mat>>
    /\ UNCHANGED <<taken, batch, cur, pend, err, logged>>

\* Mutant of StreamEnd: the end of one stream ends every loop.
StreamEndStopsAll(i) ==
    /\ pc[i] = "await"
    /\ pc' = [k \in DOMAIN pc |-> "done"]
    /\ UNCHANGED <<config, runPc, ip_value, baseDir, dirs, fs, peak, torn, mat>>
    /\ UNCHANGED <<sub, taken, batch, cur, pend, err, logged>>

\* main.rs:151: stream.next() is None, the while let loop ends.
StreamEnd(i) ==
    /\ pc[i] = "await"
    /\ pc' = [pc EXCEPT ![i] = "done"]
    /\ UNCHANGED <<config, runPc, ip_value, baseDir, dirs, fs, peak, torn, mat>>
    /\ UNCHANGED <<sub, taken, batch, cur, pend, err, logged>>

\* Mutant of Fail: the failed entry alone is given up, the entries after it
\* stay queued.
FailKeepsRest(i, kind) ==
    /\ pc' = [pc EXCEPT ![i] = "failed"]
    /\ err' = [err EXCEPT ![i] = [kind |-> kind, skipped |-> 0]]
    /\ batch' = [batch EXCEPT ![i] = IF @ = <<>> THEN <<>> ELSE Tail(@)]
    /\ cur' = [cur EXCEPT ![i] = NoCur]

\* A `?` inside the async block f (main.rs:152-181): f completes with
\* Err(kind) and drops what it owns, the rest of `responses` included.
\* err[i].skipped counts the entries dropped unhandled (history).
Fail(i, kind) ==
    /\ pc' = [pc EXCEPT ![i] = "failed"]
    /\ err' = [err EXCEPT ![i] =
                 [kind |-> kind,
                  skipped |-> IF batch[i] = <<>> THEN 0 ELSE Len(batch[i]) - 1]]
    /\ batch' = [batch EXCEPT ![i] = <<>>]
    /\ cur' = [cur EXCEPT ![i] = NoCur]

\* The streams have not yielded all the items of the model.
Yields == Sum(taken) < MaxItems

\* main.rs:151-153: the stream yields Err, `responses?` returns it.
StreamErr(i) ==
    /\ pc[i] = "await"
    /\ Yields
    /\ taken' = [taken EXCEPT ![i] = @ + 1]
    /\ Fail(i, "responses")
    /\ UNCHANGED <<config, runPc, ip_value, baseDir, dirs, fs, peak, torn, mat>>
    /\ UNCHANGED <<sub, pend, logged>>

\* main.rs:151-155: the stream yields Ok(responses); the for loop begins.
StreamBatch(i) ==
    /\ pc[i] = "await"
    /\ Yields
    /\ taken' = [taken EXCEPT ![i] = @ + 1]
    /\ \E b \in Batches(config.apps[i]) : batch' = [batch EXCEPT ![i] = b]
    /\ pc' = [pc EXCEPT ![i] = "entry"]
    /\ UNCHANGED <<config, runPc, ip_value, baseDir, dirs, fs, peak, torn, mat>>
    /\ UNCHANGED <<sub, cur, pend, err, logged>>

\* Mutant of EntryErr: the batch is undone, the files of the application
\* are removed.
EntryErrRollsBack(i) ==
    /\ pc[i] = "entry"
    /\ ~Head(batch[i]).ok
    /\ Fail(i, "response")
    /\ fs' = [p \in Paths |-> IF p.dir = config.apps[i].app_id THEN Absent ELSE fs[p]]
    /\ UNCHANGED <<config, runPc, ip_value, baseDir, dirs, peak, torn, mat>>
    /\ UNCHANGED <<sub, taken, pend, logged>>

\* Mutant of EntryErr: the file of the failed namespace is emptied.
EntryErrTruncates(i) ==
    /\ pc[i] = "entry"
    /\ ~Head(batch[i]).ok
    /\ Fail(i, "response")
    /\ fs' = [fs EXCEPT ![[dir |-> config.apps[i].app_id,
                           file |-> canonicalize_namespace(Head(batch[i]).key)]]
                          = Truncate(@)]
    /\ UNCHANGED <<config, runPc, ip_value, baseDir, dirs, peak, torn, mat>>
    /\ UNCHANGED <<sub, taken, pend, logged>>

\* main.rs:156: `response?` on an upstream error value.
EntryErr(i) ==
    /\ pc[i] = "entry"
    /\ ~Head(batch[i]).ok
    /\ Fail(i, "response")
    /\ UNCHANGED <<config, runPc, ip_value, baseDir, dirs, fs, peak, torn, mat>>
    /\ UNCHANGED <<sub, taken, pend, logged>>

\* tokio runs the file operations of one task on its blocking pool in the
\* order they were submitted: the write a File still has in flight is done
\* before the next directory or file operation of the same loop starts.
NoWriteInFlight(i) == pend[i].st # "pending"

\* main.rs:158-159: base_dir joined with response.app_id.
AppDir(response) == response.app_id

\* main.rs:158-176: the destination of a response.
PathOf(response) ==
    [dir |-> AppDir(response), file |-> canonicalize_namespace(response.namespace_name)]

\* main.rs:160: fs::create_dir_all(&path).await? fails.
CreateDirFail(i) ==
    /\ pc[i] = "entry"
    /\ Head(batch[i]).ok
    /\ NoWriteInFlight(i)
    /\ Fail(i, "create_dir_all")
    /\ UNCHANGED <<config, runPc, ip_value, baseDir, dirs, fs, peak, torn, mat>>
    /\ UNCHANGED <<sub, taken, pend, logged>>

\* main.rs:160-176: the directory exists, the content is built in memory
\* (the configurations are iterated in some order), the path is complete.
CreateDirOk(i) ==
    /\ pc[i] = "entry"
    /\ Head(batch[i]).ok
    /\ NoWriteInFlight(i)
    /\ LET response == Head(batch[i]).response IN
         /\ dirs' = dirs \cup {AppDir(response)}
         /\ \E order \in Orders(DOMAIN response.configurations) :
              cur' = [cur EXCEPT ![i] =
                        [path |-> PathOf(response),
                         content |-> Content(response.namespace_name,
                                             response.configurations, order)]]
    /\ pc' = [pc EXCEPT ![i] = "create"]
    /\ UNCHANGED <<config, runPc, ip_value, baseDir, fs, peak, torn, mat>>
    /\ UNCHANGED <<sub, taken, batch, pend, err, logged>>

\* Mutant of IniFail: the file is created before the content is built.
IniFailAfterCreate(i) ==
    /\ pc[i] = "entry"
    /\ Head(batch[i]).ok
    /\ NoWriteInFlight(i)
    /\ LET response == Head(batch[i]).response IN
         /\ IsProperties(canonicalize_namespace(response.namespace_name))
         /\ dirs' = dirs \cup {AppDir(response)}
         /\ fs' = [fs EXCEPT ![PathOf(response)] = Truncate(@)]
    /\ Fail(i, "write_to")
    /\ UNCHANGED <<config, runPc, ip_value, baseDir, peak, torn, mat>>
    /\ UNCHANGED <<sub, taken, pend, logged>>

\* main.rs:160-169: the directory exists, conf.write_to(&mut content)? fails.
IniFail(i) ==
    /\ pc[i] = "entry"
    /\ Head(batch[i]).ok
    /\ NoWriteInFlight(i)
    /\ LET response == Head(batch[i]).response IN
         /\ IsProperties(canonicalize_namespace(response.namespace_name))
         /\ dirs' = dirs \cup {AppDir(response)}
    /\ Fail(i, "write_to")
    /\ UNCHANGED <<config, runPc, ip_value, baseDir, fs, peak, torn, mat>>
    /\ UNCHANGED <<sub, taken, pend, logged>>

\* main.rs:177: File::create(path).await? fails; the file is not opened.
CreateFileFail(i) ==
    /\ pc[i] = "create"
    /\ Fail(i, "create")
    /\ UNCHANGED <<config, runPc, ip_value, baseDir, dirs, fs, peak, torn, mat>>
    /\ UNCHANGED <<sub, taken, pend, logged>>

\* main.rs:177: File::create(path).await creates or truncates the file.
CreateFileOk(i) ==
    /\ pc[i] = "create"
    /\ fs' = [fs EXCEPT ![cur[i].path] = Truncate(@)]
    /\ UNCHANGED <<peak, torn>>
    /\ pc' = [pc EXCEPT ![i] = "write"]
    /\ UNCHANGED <<config, runPc, ip_value, baseDir, dirs, mat>>
    /\ UNCHANGED <<sub, taken, batch, cur, pend, err, logged>>

\* main.rs:178: file.write_all(&content).await? reports an error of the
\* file; part of the content may be in the file.
WriteAllFail(i) ==
    /\ pc[i] = "write"
    /\ \E part \in Prefixes(cur[i].content) :
         fs' = [fs EXCEPT ![cur[i].path] = WriteAt(@, part)]
    /\ peak' = Peak(peak, fs')
    /\ torn' = torn \cup {cur[i].path}
    /\ Fail(i, "write_all")
    /\ UNCHANGED <<config, runPc, ip_value, baseDir, dirs, mat>>
    /\ UNCHANGED <<sub, taken, pend, logged>>

\* What write_all leaves behind when it returns Ok: tokio's File has copied
\* the bytes to its buffer and performs the write in the background; an
\* empty content starts no write.  The file is dropped at main.rs:179
\* without flush, so the fate of the write is never reported.
Handed(path, content, fate) ==
    IF content = <<>> THEN NoWrite
    ELSE [st |-> "pending", fate |-> fate, path |-> path, content |-> content]

\* main.rs:151, 155: after the last entry f is Ok(()) and the loop awaits
\* the next item; otherwise the for loop goes on.
AfterEntry(rest) == IF rest = <<>> THEN "await" ELSE "entry"

\* main.rs:178-179: write_all returns Ok, the file is dropped.
WriteAllOk(i) ==
    /\ pc[i] = "write"
    /\ \E fate \in {"ok", "lost"} :
         pend' = [pend EXCEPT ![i] = Handed(cur[i].path, cur[i].content, fate)]
    /\ batch' = [batch EXCEPT ![i] = Tail(@)]
    /\ cur' = [cur EXCEPT ![i] = NoCur]
    /\ pc' = [pc EXCEPT ![i] = AfterEntry(Tail(batch[i]))]
    /\ UNCHANGED <<config, runPc, ip_value, baseDir, dirs, fs, peak, torn, mat>>
    /\ UNCHANGED <<sub, taken, err, logged>>

\* The background write of the dropped File completes.
LandOk(i) ==
    /\ pend[i].st = "pending"
    /\ pend[i].fate = "ok"
    /\ fs' = [fs EXCEPT ![pend[i].path] = WriteAt(@, pend[i].content)]
    /\ peak' = Peak(peak, fs')
    /\ pend' = [pend EXCEPT ![i] = NoWrite]
    /\ UNCHANGED torn
    /\ UNCHANGED <<config, runPc, ip_value, baseDir, dirs, mat>>
    /\ UNCHANGED <<pc, sub, taken, batch, cur, err, logged>>

\* The background write of the dropped File fails; nobody is told.
LandLost(i) ==
    /\ pend[i].st = "pending"
    /\ pend[i].fate = "lost"
    /\ \E part \in Prefixes(pend[i].content) :
         fs' = [fs EXCEPT ![pend[i].path] = WriteAt(@, part)]
    /\ peak' = Peak(peak, fs')
    /\ pend' = [pend EXCEPT ![i] = NoWrite]
    /\ UNCHANGED torn
    /\ UNCHANGED <<config, runPc, ip_value, baseDir, dirs, mat>>
    /\ UNCHANGED <<pc, sub, taken, batch, cur, err, logged>>

\* Mutant of LogError: break instead of continue.
LogErrorAndBreak(i) ==
    /\ pc[i] = "failed"
    /\ logged' = [logged EXCEPT ![i] = @ + 1]
    /\ err' = [err EXCEPT ![i] = NoErr]
    /\ pc' = [pc EXCEPT ![i] = "done"]
    /\ UNCHANGED <<config, runPc, ip_value, baseDir, dirs, fs, peak, torn, mat>>
    /\ UNCHANGED <<sub, taken, batch, cur, pend>>

\* main.rs:182-185: log::error!("{:?}", e); continue
LogError(i) ==
    /\ pc[i] = "failed"
    /\ logged' = [logged EXCEPT ![i] = @ + 1]
    /\ err' = [err EXCEPT ![i] = NoErr]
    /\ pc' = [pc EXCEPT ![i] = "await"]
    /\ UNCHANGED <<config, runPc, ip_value, baseDir, dirs, fs, peak, torn, mat>>
    /\ UNCHANGED <<sub, taken, batch, cur, pend>>

Next ==
    \/ CreateBaseDir
    \/ BuildClient
    \/ StartLoops
    \/ Return
    \/ \E i \in DOMAIN pc : Subscribe(i)
    \/ \E i \in DOMAIN pc : StreamEnd(i)
    \/ \E i \in DOMAIN pc : StreamErr(i)
    \/ \E i \in DOMAIN pc : StreamBatch(i)
    \/ \E i \in DOMAIN pc : EntryErr(i)
    \/ \E i \in DOMAIN pc : CreateDirFail(i)
    \/ \E i \in DOMAIN pc : CreateDirOk(i)
    \/ \E i \in DOMAIN pc : IniFail(i)
    \/ \E i \in DOMAIN pc : CreateFileFail(i)
    \/ \E i \in DOMAIN pc : CreateFileOk(i)
    \/ \E i \in DOMAIN pc : WriteAllFail(i)
    \/ \E i \in DOMAIN pc : WriteAllOk(i)
    \/ \E i \in DOMAIN pc : LogError(i)
    \/ \E i \in DOMAIN pc : LandOk(i)
    \/ \E i \in DOMAIN pc : LandLost(i)

Spec == Init /\ [][Next]_vars

-----------------------------------------------------------------------------
(* The materialisation of main.rs:162-174 alone: the same response is    *)
(* materialised twice, as two batches carrying the same snapshot do.     *)

MatKeys == {"content", "k", "j"}
MatValues == {<<>>, <<"x">>, <<"x", "y">>}
MatMaps == UNION {[K -> MatValues] : K \in SUBSET MatKeys}
MatNames == {NsBare, NsProps, NsJson, <<"notes", ".txt">>, <<"feature", ".json", ".properties">>}

MatInit ==
    /\ config = MkConfig("http://apollo:8080", NoHost, <<>>)
    /\ runPc = "off"
    /\ ip_value = NoIp
    /\ baseDir = FALSE
    /\ dirs = {}
    /\ fs = [p \in Paths |-> Absent]
    /\ pc = <<>>
    /\ sub = <<>>
    /\ taken = <<>>
    /\ batch = <<>>
    /\ cur = <<>>
    /\ pend = <<>>
    /\ err = <<>>
    /\ logged = <<>>
    /\ peak = [p \in Paths |-> 0]
    /\ torn = {}
    /\ \E n \in MatNames, m \in MatMaps :
         mat = [st |-> "in", namespace_name |-> n, configurations |-> m,
                first |-> <<>>, second |-> <<>>]

\* main.rs:162-174 on the response of the first batch.
MaterializeFirst ==
    /\ mat.st = "in"
    /\ \E order \in Orders(DOMAIN mat.configurations) :
         mat' = [mat EXCEPT !.st = "one",
                            !.first = Content(mat.namespace_name, mat.configurations, order)]
    /\ UNCHANGED <<config, runPc, ip_value, baseDir, dirs, fs, peak, torn>>
    /\ UNCHANGED loopVars

\* main.rs:162-174 on the same response in a later batch.
MaterializeSecond ==
    /\ mat.st = "one"
    /\ \E order \in Orders(DOMAIN mat.configurations) :
         mat' = [mat EXCEPT !.st = "two",
                            !.second = Content(mat.namespace_name, mat.configurations, order)]
    /\ UNCHANGED <<config, runPc, ip_value, baseDir, dirs, fs, peak, torn>>
    /\ UNCHANGED loopVars

MatNext == MaterializeFirst \/ MaterializeSecond

SpecMat == MatInit /\ [][MatNext]_vars

-----------------------------------------------------------------------------
(* Claims *)

\* The position of namespace ns in the request of loop i.
Requested(i, ns) ==
    CHOOSE n \in DOMAIN config.apps[i].namespaces : config.apps[i].namespaces[n] = ns

\* C1: isolation inside a batch. When the entry the loop handles is an
\* upstream error value and a successful snapshot B follows it in the same
\* batch, B is still processed: handling the error leaves B among the
\* entries the loop goes on to handle.
C1_IsolationInBatch ==
    [][\A i \in DOMAIN pc :
         (/\ pc[i] = "entry"
          /\ ~Head(batch[i]).ok
          /\ pc'[i] # pc[i])
         => \A j \in 2..Len(batch[i]) :
              batch[i][j].ok => \E k \in DOMAIN batch'[i] : batch'[i][k] = batch[i][j]]_vars

\* C2: abort of the rest of a batch. A failure of any kind while a batch is
\* handled (upstream error value, create_dir_all, write_to, File::create,
\* write_all) drops every entry not yet handled; the loop then does exactly
\* one thing, log the error once, which touches no directory and no file,
\* and is back awaiting the next item of the same stream.
C2_AbortRestOfBatch ==
    /\ [](\A i \in DOMAIN pc :
            pc[i] = "failed" =>
              /\ batch[i] = <<>>
              /\ cur[i] = NoCur
              /\ err[i].kind \in {"responses", "response", "create_dir_all",
                                  "write_to", "create", "write_all"})
    /\ [][\A i \in DOMAIN pc :
            /\ (pc[i] = "entry" /\ ~Head(batch[i]).ok /\ pc'[i] # pc[i])
                 => pc'[i] = "failed"
            /\ (pc[i] = "failed" /\ pc'[i] # pc[i])
                 => /\ pc'[i] = "await"
                    /\ logged'[i] = logged[i] + 1
                    /\ sub'[i] = sub[i]
                    /\ UNCHANGED <<dirs, fs>>
            /\ (pc[i] = "await" /\ pc'[i] # pc[i]) => UNCHANGED <<dirs, fs>>
            /\ logged'[i] # logged[i] => pc[i] = "failed"]_vars

\* C2 witness: a directory creation failed with an entry of the batch still
\* unhandled, and the loop is about to log.
C2_Witness ==
    \E i \in DOMAIN pc :
        /\ pc[i] = "failed"
        /\ err[i].kind = "create_dir_all"
        /\ err[i].skipped >= 1

\* Everything loop i owns.
LoopState(i) == <<pc[i], sub[i], taken[i], batch[i], cur[i], pend[i], err[i], logged[i]>>

\* The files under the directory of application id a.
FilesOf(a) == [p \in {q \in Paths : q.dir = a} |-> fs[p]]

\* C3: isolation between applications. For two loops of different
\* applications, under every interleaving, a step of loop A (a failure, its
\* logging, the end of A's stream and any other step) changes nothing that
\* loop B owns: B's position, request, stream position, batch, pending
\* write and log count, and the files and directory of B's application; and
\* while B's stream has not ended the process has not exited.
C3_SiblingIsolation ==
    /\ [][\A i \in DOMAIN pc : \A j \in DOMAIN pc :
            (/\ config.apps[i].app_id # config.apps[j].app_id
             /\ LoopState(i)' # LoopState(i))
            => /\ LoopState(j)' = LoopState(j)
               /\ FilesOf(config.apps[j].app_id)' = FilesOf(config.apps[j].app_id)
               /\ (config.apps[j].app_id \in dirs') = (config.apps[j].app_id \in dirs)]_vars
    /\ [](\A j \in DOMAIN pc : pc[j] # "done" => runPc = "join")

\* C3 witness: loop A has failed, logged and seen its stream end; its
\* sibling B is writing the file of its second batch.
C3_Witness ==
    \E i \in DOMAIN pc : \E j \in DOMAIN pc :
        /\ config.apps[i].app_id # config.apps[j].app_id
        /\ pc[i] = "done"
        /\ logged[i] >= 1
        /\ pc[j] = "write"
        /\ taken[j] = 2
        /\ logged[j] = 0

\* C4: a watch loop terminates only by the end of its stream. The loop
\* becomes done only from awaiting the next item, with nothing taken and
\* nothing logged in that step; every failure leads back to awaiting the
\* next item, where an item the stream yields is taken; a done loop stays
\* done, keeps its one subscription and takes nothing more; and once the
\* loops run, run never returns an error.
C4_EndsOnlyWithStream ==
    /\ [][\A i \in DOMAIN pc :
            /\ (pc'[i] = "done" /\ pc[i] # "done")
                 => pc[i] = "await" /\ taken'[i] = taken[i] /\ logged'[i] = logged[i]
            /\ (pc[i] = "failed" /\ pc'[i] # pc[i]) => pc'[i] = "await"
            /\ pc[i] = "done"
                 => /\ pc'[i] = "done"
                    /\ sub'[i] = sub[i]
                    /\ taken'[i] = taken[i]
                    /\ logged'[i] = logged[i]]_vars
    /\ [][runPc = "join" => runPc' \in {"join", "ok"}]_vars
    /\ [](\A i \in DOMAIN pc :
            (pc[i] = "await" /\ Yields) => ENABLED StreamBatch(i))

\* C4 witness: after a failed batch the loop handles the next batch.
C4_Witness ==
    \E i \in DOMAIN pc : pc[i] = "write" /\ logged[i] >= 1

C6_RequestedOrder ==
    \A i \in DOMAIN pc :
        \A a \in DOMAIN batch[i] : \A b \in DOMAIN batch[i] :
            a < b => Requested(i, batch[i][a].key) < Requested(i, batch[i][b].key)

\* C7: fatal startup errors precede every watch loop. A failed creation of
\* the base directory, a URL that does not parse, a client that cannot be
\* built and a HostCidr that is no CIDR each make run return an error; and
\* when run has returned an error no future was created, no subscription
\* was opened, and no directory or file was created under the base
\* directory.
C7_FatalBeforeLoops ==
    /\ [](runPc = "err" =>
            /\ pc = <<>>
            /\ \A i \in Loops : sub[i] = NoRequest /\ taken[i] = 0
            /\ dirs = {}
            /\ \A p \in Paths : fs[p] = Absent)
    /\ [][/\ (runPc = "mkdir" /\ runPc' # runPc /\ ~baseDir') => runPc' = "err"
          /\ (runPc = "client" /\ runPc' # runPc /\ ~UrlParses(config.config_service_url))
               => runPc' = "err"
          /\ (runPc = "client" /\ runPc' # runPc) => runPc' \in {"host", "err"}
          /\ (/\ runPc = "host"
              /\ runPc' # runPc
              /\ config.host.type = "HostCidr"
              /\ ~CidrParses(config.host.arg))
               => runPc' = "err"
          /\ runPc = "err" => runPc' = "err"]_vars

\* C7 witness: run has returned an error for an invalid CIDR, the base
\* directory exists, an application is configured and no loop exists.
C7_Witness ==
    /\ runPc = "err"
    /\ baseDir
    /\ config.host.type = "HostCidr"
    /\ config.apps # <<>>
    /\ pc = <<>>

\* C8: fan-out and join. Once run has reached join_all there is exactly one
\* loop per AppSpec of the configuration, loop i watching application i;
\* before that there is none; run has returned Ok only when every loop is
\* done; and with an empty application list the only step of run at
\* join_all is to return Ok.
C8_FanOutJoin ==
    /\ [](/\ runPc \in {"join", "ok"} => DOMAIN pc = 1..Len(config.apps)
          /\ runPc \notin {"join", "ok"} => pc = <<>>
          /\ runPc = "ok" => \A i \in DOMAIN pc : pc[i] = "done"
          /\ \A i \in DOMAIN pc :
               pc[i] # "start" => sub[i] = WatchRequestOf(config.apps[i], ip_value)
          /\ (runPc = "join" /\ config.apps = <<>>) => ENABLED Return)
    /\ [][(runPc = "join" /\ config.apps = <<>>) => runPc' = "ok"]_vars

\* C8 witness: run has returned Ok with two applications, both loops done,
\* one of them after having written a file.
C8_Witness ==
    /\ runPc = "ok"
    /\ Len(config.apps) = 2
    /\ \A i \in DOMAIN pc : pc[i] = "done"
    /\ \E p \in Paths : fs[p].exists

\* C9: determinism of materialisation. Materialising the same namespace
\* name and configuration map twice yields the same content.
C9_Deterministic ==
    mat.st = "two" => mat.first = mat.second

\* C10 as claimed: for every namespace name that does not end in
\* .properties, a bare name included, the content is the value of the key
\* "content", or empty without that key.
C10_BlobForNonPropertiesName ==
    (mat.st # "in" /\ ~EndsWith(mat.namespace_name, ".properties")) =>
        mat.first = IF "content" \in DOMAIN mat.configurations
                    THEN mat.configurations["content"] ELSE <<>>

\* C10 as amended: for every namespace name whose canonicalized filename
\* does not end in .properties, the content is the value of the key
\* "content", or empty without that key; every other key is ignored.
C10_BlobForNonPropertiesFile ==
    (mat.st # "in" /\ ~EndsWith(canonicalize_namespace(mat.namespace_name), ".properties")) =>
        mat.first = IF "content" \in DOMAIN mat.configurations
                    THEN mat.configurations["content"] ELSE <<>>

\* C10 witness: a .json namespace with the keys "content" and "k" was
\* materialised to the value of "content".
C10_Witness ==
    /\ mat.st = "one"
    /\ mat.namespace_name = NsJson
    /\ DOMAIN mat.configurations = {"content", "k"}
    /\ mat.configurations["content"] = <<"x", "y">>
    /\ mat.configurations["k"] = <<"x">>
    /\ mat.first = <<"x", "y">>

\* A standard INI reader on one line of the general section: the key and
\* the value on the two sides of "=".
ParseLine(line) ==
    CHOOSE kv \in MatKeys \X MatValues : kv[1] \o "=" \o Join(kv[2]) \o "\n" = line

\* C11: properties format. For every namespace whose canonicalized filename
\* ends in .properties and every map M, the document has exactly one line
\* per key of M, and reading the lines back gives the key/value pairs of M,
\* no pair missing and none added, the key "content" like any other; an
\* empty M gives a document without lines.
C11_PropertiesEntries ==
    (mat.st # "in" /\ EndsWith(canonicalize_namespace(mat.namespace_name), ".properties")) =>
        /\ Len(mat.first) = Cardinality(DOMAIN mat.configurations)
        /\ {ParseLine(mat.first[n]) : n \in DOMAIN mat.first}
             = {<<k, mat.configurations[k]>> : k \in DOMAIN mat.configurations}

\* C11 witness: a bare namespace name with the keys "content" and "k" was
\* written as a document of two lines.
C11_Witness ==
    /\ mat.st = "one"
    /\ mat.namespace_name = NsBare
    /\ DOMAIN mat.configurations = {"content", "k"}
    /\ mat.configurations["content"] = <<"x", "y">>
    /\ mat.first = <<"k=\n", "content=xy\n">>

-----------------------------------------------------------------------------
(* A configuration service that does not echo the request *)

\* main.rs:155-162 read the application id and the namespace name from the
\* response, which the service has written: an entry for the requested
\* namespace `ns` whose response names any application and any namespace.
ForeignEntries(app, ns) ==
    {[key |-> ns, ok |-> TRUE,
      response |-> [app_id |-> a, namespace_name |-> n, configurations |-> m]] :
        a \in AppIds, n \in {NsBare, NsProps, NsJson}, m \in Delivered(app.app_id)}

\* main.rs:151-155: the stream yields a batch of one such entry.
StreamForeign(i) ==
    /\ pc[i] = "await"
    /\ Yields
    /\ taken' = [taken EXCEPT ![i] = @ + 1]
    /\ \E n \in DOMAIN config.apps[i].namespaces :
         \E e \in ForeignEntries(config.apps[i], config.apps[i].namespaces[n]) :
           batch' = [batch EXCEPT ![i] = <<e>>]
    /\ pc' = [pc EXCEPT ![i] = "entry"]
    /\ UNCHANGED <<config, runPc, ip_value, baseDir, dirs, fs, peak, torn, mat>>
    /\ UNCHANGED <<sub, cur, pend, err, logged>>

\* One application, "mail", subscribed to feature.json.
InitForeign ==
    /\ Init
    /\ config = MkConfig("http://apollo:8080", NoHost, <<AppMail>>)

NextForeign ==
    \/ Next
    \/ \E i \in DOMAIN pc : StreamForeign(i)

SpecForeign == InitForeign /\ [][NextForeign]_vars

\* C12: destination path. Every file that exists lies at
\* <dir>/A/<canonicalized filename of ns> for the id A of a configured
\* application and a namespace ns that application requested, and every
\* sub-directory is the one of a configured application, whatever
\* application id and namespace name the received responses carry.
C12_DestinationPath ==
    /\ \A p \in Paths : fs[p].exists =>
         \E i \in Loops :
           /\ p.dir = config.apps[i].app_id
           /\ \E n \in DOMAIN config.apps[i].namespaces :
                p.file = canonicalize_namespace(config.apps[i].namespaces[n])
    /\ dirs \subseteq {config.apps[i].app_id : i \in Loops}

-----------------------------------------------------------------------------
(* Claims C13..C19, specification Spec *)

C14_WrittenBeforeSuccess ==
    \A i \in DOMAIN pc : pend[i].st # "pending"

-----------------------------------------------------------------------------
(* A configuration that lists one application id twice *)

\* struct Config (main.rs:36-56) holds a Vec<App>; nothing in main.rs
\* rejects a list in which an application id occurs more than once.
InitDup ==
    /\ config = MkConfig("http://apollo:8080", NoHost, <<AppStock, AppStock>>)
    /\ runPc = "mkdir"
    /\ ip_value = NoIp
    /\ baseDir = FALSE
    /\ dirs = {}
    /\ fs = [p \in Paths |-> Absent]
    /\ pc = <<>>
    /\ sub = [i \in Loops |-> NoRequest]
    /\ taken = [i \in Loops |-> 0]
    /\ batch = [i \in Loops |-> <<>>]
    /\ cur = [i \in Loops |-> NoCur]
    /\ pend = [i \in Loops |-> NoWrite]
    /\ err = [i \in Loops |-> NoErr]
    /\ logged = [i \in Loops |-> 0]
    /\ peak = [p \in Paths |-> 0]
    /\ torn = {}
    /\ mat = MatIdle

SpecDup == InitDup /\ [][Next]_vars

\* The paths loop i has created or truncated and has not finished writing.
Writing(i) ==
    (IF pc[i] = "write" THEN {cur[i].path} ELSE {})
      \cup (IF pend[i].st = "pending" THEN {pend[i].path} ELSE {})

\* C15: no file shared between loops. In every accepted configuration, also
\* one in which an application id occurs more than once, no two loops are
\* ever writing the same file path.
C15_NoSharedFile ==
    \A i \in DOMAIN pc : \A j \in DOMAIN pc :
        i # j => Writing(i) \cap Writing(j) = {}

\* C16: single targeting value. The host identity is resolved before any
\* subscription and never changes afterwards; the request of every loop
\* carries that one value, which is none when the configuration has no
\* host, the host name marker for HostName and the given string, unchanged,
\* for Custom; resolving HostName or Custom never fails.
C16_SingleTargetingValue ==
    /\ [](/\ \A i \in Loops : sub[i] # NoRequest =>
                /\ runPc \in {"join", "ok"}
                /\ sub[i].ip = ip_value
          /\ runPc \in {"join", "ok"} =>
                \/ config.host.type = "None" /\ ip_value = [kind |-> "None", arg |-> ""]
                \/ config.host.type = "HostName" /\ ip_value.kind = "HostName"
                \/ config.host.type = "HostCidr" /\ ip_value.kind = "HostCidr"
                \/ /\ config.host.type = "Custom"
                   /\ ip_value = [kind |-> "Custom", arg |-> config.host.arg])
    /\ [][/\ runPc \in {"join", "ok"} => ip_value' = ip_value
          /\ \A i \in Loops : sub[i] # NoRequest => sub'[i] = sub[i]
          /\ (runPc = "host" /\ runPc' = "err") => config.host.type = "HostCidr"]_vars

\* C16 witness: two loops have subscribed, both with the host name marker.
C16_Witness ==
    /\ Len(config.apps) = 2
    /\ \A i \in Loops : sub[i] # NoRequest /\ sub[i].ip.kind = "HostName"

\* C17: no rollback inside a batch. The step in which loop i abandons a
\* batch, and the step in which it logs the error, change no file other
\* than the one the failing entry was writing, and leave the write of an
\* earlier entry that is still being carried out as it is.
C17_NoRollback ==
    [][\A i \in DOMAIN pc :
         /\ (pc[i] # "failed" /\ pc'[i] = "failed") =>
              /\ \A p \in Paths : p # cur[i].path => fs'[p] = fs[p]
              /\ pend'[i] = pend[i]
         /\ (pc[i] = "failed" /\ pc'[i] # "failed") =>
              /\ fs' = fs
              /\ pend'[i] = pend[i]]_vars

\* C17 witness: the only batch taken so far had two entries; the first was
\* written, the second was an error value, and the file of the first holds
\* its content.
C17_Witness ==
    \E i \in DOMAIN pc :
        /\ config.apps[i].app_id = "order"
        /\ pc[i] = "failed"
        /\ err[i].kind = "response"
        /\ taken[i] = 1
        /\ pend[i] = NoWrite
        /\ \E p \in Paths : p.dir = "order" /\ fs[p].exists /\ fs[p].data # <<>>

\* C18: an upstream error changes nothing on disk. The step in which loop i
\* meets an error of the stream (the whole batch) or the error value of one
\* namespace creates no directory and creates, truncates or writes no
\* file; the file of the failed namespace keeps its content.
C18_UpstreamErrorFrame ==
    [][\A i \in DOMAIN pc :
         (/\ pc'[i] = "failed"
          /\ \/ pc[i] = "await"
             \/ pc[i] = "entry" /\ ~Head(batch[i]).ok) =>
            /\ baseDir' = baseDir
            /\ dirs' = dirs
            /\ fs' = fs]_vars

\* C18 witness: "mail" has one namespace; its file was written from an
\* earlier snapshot, then the namespace arrived as an error value, and the
\* file still holds content.
C18_Witness ==
    \E i \in DOMAIN pc :
        /\ config.apps[i].app_id = "mail"
        /\ pc[i] = "failed"
        /\ err[i].kind = "response"
        /\ pend[i] = NoWrite
        /\ fs[[dir |-> "mail", file |-> canonicalize_namespace(NsJson)]].exists
        /\ fs[[dir |-> "mail", file |-> canonicalize_namespace(NsJson)]].data # <<>>

\* C19: directory before file. A file exists only in a sub-directory that
\* exists; while loop i is creating or writing a file, the directory is
\* there and the content is the complete materialization of the entry; a
\* file changes only in a directory that existed before the step; and a
\* step in which create_dir_all or the INI serialization fails changes no
\* file.
C19_DirectoryBeforeFile ==
    /\ [](/\ \A p \in Paths : fs[p].exists => baseDir /\ p.dir \in dirs
          /\ \A i \in DOMAIN pc : pc[i] \in {"create", "write"} =>
                /\ cur[i].path.dir \in dirs
                /\ cur[i].content \in Contents(Head(batch[i]).response.namespace_name,
                                               Head(batch[i]).response.configurations))
    /\ [][/\ \A p \in Paths : fs'[p] # fs[p] => p.dir \in dirs
          /\ \A i \in DOMAIN pc :
               (/\ pc[i] = "entry"
                /\ pc'[i] = "failed"
                /\ err'[i].kind \in {"create_dir_all", "write_to"}) =>
                  fs' = fs]_vars

\* C19 witness: the file of "stock" holds content of an earlier snapshot,
\* and the INI serialization of a later one has failed.
C19_Witness ==
    \E i \in DOMAIN pc :
        /\ config.apps[i].app_id = "stock"
        /\ pc[i] = "failed"
        /\ err[i].kind = "write_to"
        /\ pend[i] = NoWrite
        /\ fs[[dir |-> "stock", file |-> canonicalize_namespace(NsProps)]].data # <<>>

=============================================================================
